---- MODULE Spec2Model ----
(***************************************************************************)
(* docs/examples/spiking-mnist.ipynb: the notebook's statements as a state *)
(* machine.  Three specifications share the variables:                     *)
(*   Spec          one run of the notebook, statement by statement, every  *)
(*                 external call either returning or raising;              *)
(*   SpecData      the data preparation (flatten, add time, tile) applied  *)
(*                 to the contents of small datasets;                      *)
(*   SpecAccuracy  classification_accuracy applied to small label and      *)
(*                 output arrays.                                          *)
(***************************************************************************)
EXTENDS Integers, Sequences, FiniteSets, TLC

VARIABLES
    \* ---- Spec: one run of the notebook
    pc,           \* index into Program of the statement to execute next
    status,       \* "running" | "failed" | "done"
    do_training,  \* the flag of line 259, set by the reader before the run
    shape,        \* array shapes of train_images, train_labels, test_images, test_labels
    x,            \* shape of the output of the layer declared last
    net,          \* the layers declared so far
    sim,          \* the simulator: state, compiled loss, parameters
    files,        \* file name -> content of the working directory
    predicted,    \* number of examples in `data` (the result of sim.predict)
    log,          \* every statement executed so far, in order
    \* ---- SpecData: the contents of the arrays
    dpc,          \* index into DataProgram
    raw,          \* the dataset as load_data returned it
    arr,          \* the arrays train_images, train_labels, test_images, test_labels
    \* ---- SpecAccuracy
    apc,          \* "idle" | "ready" | "evaluated"
    y_true,       \* labels, [example][timestep][1]
    y_pred,       \* network output, [example][timestep][class]
    y_true2,      \* second input, equal to the first on the final timestep
    y_pred2,
    acc,          \* classification_accuracy(y_true, y_pred)
    acc2          \* classification_accuracy(y_true2, y_pred2)

runVars == <<pc, status, do_training, shape, x, net, sim, files, predicted, log>>
dataVars == <<dpc, raw, arr>>
accVars == <<apc, y_true, y_pred, y_true2, y_pred2, acc, acc2>>
vars == <<runVars, dataVars, accVars>>

\* ------------------------------------------------------------------ helpers

RECURSIVE Prod(_)
Prod(s) == IF s = <<>> THEN 1 ELSE Head(s) * Prod(Tail(s))

Min(a, b) == IF a < b THEN a ELSE b

\* ------------------------------------------------------- program constants

minibatch_size == 200

n_steps == 30

\* MNIST as tf.keras.datasets.mnist.load_data() returns it
NumTrain == 60000

NumTest == 10000

\* ------------------------------------------------------------- the notebook

NoLoss == [probe |-> "none", loss |-> "none"]

\* cell of lines 61-75
CellLoad ==
    << [op |-> "load_data"],
       [op |-> "flatten", which |-> "train_images"],
       [op |-> "flatten", which |-> "test_images"],
       [op |-> "plot_sample", i |-> 0],
       [op |-> "plot_sample", i |-> 1],
       [op |-> "plot_sample", i |-> 2] >>

\* variant: the third convolution declared with shape_in (13, 13, 64)
CellNetwork_shape13 ==
    << [op |-> "node", size |-> 28 * 28],
       [op |-> "conv", filters |-> 32, kernel_size |-> 3, strides |-> 1,
        shape_in |-> <<28, 28, 1>>],
       [op |-> "neurons"],
       [op |-> "conv", filters |-> 64, kernel_size |-> 3, strides |-> 2,
        shape_in |-> <<26, 26, 32>>],
       [op |-> "neurons"],
       [op |-> "conv", filters |-> 128, kernel_size |-> 3, strides |-> 2,
        shape_in |-> <<13, 13, 64>>],
       [op |-> "neurons"],
       [op |-> "dense", units |-> 10],
       [op |-> "probe", label |-> "out_p"],
       [op |-> "probe", label |-> "out_p_filt"] >>

\* cell of lines 122-163 (Conv2D's strides default to 1)
CellNetwork ==
    << [op |-> "node", size |-> 28 * 28],
       [op |-> "conv", filters |-> 32, kernel_size |-> 3, strides |-> 1,
        shape_in |-> <<28, 28, 1>>],
       [op |-> "neurons"],
       [op |-> "conv", filters |-> 64, kernel_size |-> 3, strides |-> 2,
        shape_in |-> <<26, 26, 32>>],
       [op |-> "neurons"],
       [op |-> "conv", filters |-> 128, kernel_size |-> 3, strides |-> 2,
        shape_in |-> <<12, 12, 64>>],
       [op |-> "neurons"],
       [op |-> "dense", units |-> 10],
       [op |-> "probe", label |-> "out_p"],
       [op |-> "probe", label |-> "out_p_filt"] >>

\* cell of lines 179-180
CellSimulator ==
    << [op |-> "construct", minibatch_size |-> minibatch_size] >>

\* cell of lines 201-210
CellTime ==
    << [op |-> "add_time", which |-> "train_images"],
       [op |-> "add_time", which |-> "train_labels"],
       [op |-> "tile", which |-> "test_images"],
       [op |-> "tile", which |-> "test_labels"] >>

\* variant: the accuracy compiled on the unfiltered probe
CellAccuracy_unfiltered ==
    << [op |-> "compile", probe |-> "out_p", loss |-> "classification_accuracy"],
       [op |-> "evaluate", probe |-> "out_p_filt"] >>

\* cells of lines 229-238 and of lines 295-299
CellAccuracy ==
    << [op |-> "compile", probe |-> "out_p_filt", loss |-> "classification_accuracy"],
       [op |-> "evaluate", probe |-> "out_p_filt"] >>

\* lines 262-269
BranchTrain ==
    << [op |-> "compile", probe |-> "out_p", loss |-> "SparseCategoricalCrossentropy"],
       [op |-> "fit", probe |-> "out_p"],
       [op |-> "save_params", path |-> "./mnist_params"] >>

\* variant: the download saved under the name given to load_params
BranchLoad_otherName ==
    << [op |-> "download", dest |-> "mnist_params"],
       [op |-> "load_params", path |-> "./mnist_params"] >>

\* lines 272-279
BranchLoad ==
    << [op |-> "download", dest |-> "mnist_params.npz"],
       [op |-> "load_params", path |-> "./mnist_params"] >>

\* cell of lines 259-279
CellTrain(train) == IF train THEN BranchTrain ELSE BranchLoad

\* variant: predict given half a minibatch
CellPredict_half ==
    << [op |-> "predict", limit |-> minibatch_size \div 2],
       [op |-> "plot_prediction", i |-> 0],
       [op |-> "plot_prediction", i |-> 1],
       [op |-> "plot_prediction", i |-> 2],
       [op |-> "plot_prediction", i |-> 3],
       [op |-> "plot_prediction", i |-> 4] >>

\* cell of lines 320-333
CellPredict ==
    << [op |-> "predict", limit |-> minibatch_size],
       [op |-> "plot_prediction", i |-> 0],
       [op |-> "plot_prediction", i |-> 1],
       [op |-> "plot_prediction", i |-> 2],
       [op |-> "plot_prediction", i |-> 3],
       [op |-> "plot_prediction", i |-> 4] >>

\* cell of line 342
CellClose == << [op |-> "close"] >>

\* variant: the predictions plotted before the weights are trained or loaded
Notebook_predictFirst(train) ==
    CellLoad \o CellNetwork \o CellSimulator \o CellTime \o CellAccuracy
        \o CellPredict \o CellTrain(train) \o CellAccuracy \o CellClose

\* variant: the simulator closed before the predictions
Notebook_closeEarly(train) ==
    CellLoad \o CellNetwork \o CellSimulator \o CellTime \o CellAccuracy
        \o CellTrain(train) \o CellAccuracy \o CellClose \o CellPredict

\* the cells in the order of the file
Notebook(train) ==
    CellLoad \o CellNetwork \o CellSimulator \o CellTime \o CellAccuracy
        \o CellTrain(train) \o CellAccuracy \o CellPredict \o CellClose

Program == Notebook(do_training)

Cur == Program[pc]

AtOp(o) == status = "running" /\ pc <= Len(Program) /\ Cur.op = o

\* the calls into TensorFlow, urllib and the simulator, each of which may raise
Fallible ==
    {"load_data", "construct", "compile", "evaluate", "fit", "save_params",
     "download", "load_params", "predict"}

SimCalls ==
    {"compile", "evaluate", "fit", "save_params", "load_params", "predict", "close"}

FileNames == {"mnist_params.npz", "mnist_params"}

\* save_params and load_params name the file path + ".npz"
ParamsFile(path) == IF path = "./mnist_params" THEN "mnist_params.npz" ELSE path

\* ------------------------------------------------------------ array shapes

\* x.reshape((x.shape[0], -1)), lines 67-68
ReshapeRows(s) == <<s[1], Prod(Tail(s))>>

\* x[:, None, :] on a matrix and x[:, None, None] on a vector, lines 202-203
AddAxes(s) == IF Len(s) = 2 THEN <<s[1], 1, s[2]>> ELSE <<s[1], 1, 1>>

\* np.tile(a, (1, n_steps, 1)), lines 209-210
TileShape(s) == <<s[1], s[2] * n_steps, s[3]>>

\* x[:limit] along the first axis, line 320
Take(s, limit) == [s EXCEPT ![1] = Min(s[1], limit)]

\* tf.keras.layers.Conv2D with the default padding="valid", lines 138-151
ConvOutput(l) ==
    << ((l.shape_in[1] - l.kernel_size) \div l.strides) + 1,
       ((l.shape_in[2] - l.kernel_size) \div l.strides) + 1,
       l.filters >>

\* ------------------------------------------------------------------ the run

NoSim == [state |-> "none", compiled |-> NoLoss, params |-> "none", minibatch_size |-> 0]

NoShape ==
    [train_images |-> <<>>, train_labels |-> <<>>,
     test_images |-> <<>>, test_labels |-> <<>>]

\* the number of examples the statement feeds to the simulator
CurN ==
    CASE Cur.op = "fit" -> shape.train_images[1]
      [] Cur.op = "evaluate" -> shape.test_images[1]
      [] Cur.op = "predict" -> Take(shape.test_images, Cur.limit)[1]
      [] Cur.op = "plot_prediction" -> predicted
      [] OTHER -> 0

\* the probe the statement's targets (or the data it plots) are keyed by
CurProbe ==
    CASE Cur.op \in {"fit", "evaluate"} -> Cur.probe
      [] Cur.op = "plot_prediction" -> "out_p_filt"
      [] OTHER -> "none"

CurIndex == IF Cur.op \in {"plot_sample", "plot_prediction"} THEN Cur.i ELSE 0

\* what the log keeps of a statement: whether it returned, the simulator as the
\* statement found it, the number n of examples, the probe, the index plotted
Entry(ok) ==
    [op |-> Cur.op, ok |-> ok, sim |-> sim.state, compiled |-> sim.compiled,
     params |-> sim.params, n |-> CurN, probe |-> CurProbe, i |-> CurIndex]

\* the statement returned: go on with the next one
Advance(entry) ==
    /\ pc' = pc + 1
    /\ log' = Append(log, entry)
    /\ status' = IF pc + 1 > Len(Program) THEN "done" ELSE "running"
    /\ UNCHANGED <<dataVars, accVars>>

\* variant: the runner goes on with the next statement after an exception
OnRaise_skip ==
    [pc |-> pc + 1,
     status |-> IF pc + 1 > Len(Program) THEN "done" ELSE "running"]

\* no statement of the notebook is inside a try block: an exception ends the run
OnRaise == [pc |-> pc, status |-> "failed"]

SimOpen == sim.state = "open"

LoadData ==
    /\ AtOp("load_data")
    /\ shape' = [train_images |-> <<NumTrain, 28, 28>>, train_labels |-> <<NumTrain>>,
                 test_images |-> <<NumTest, 28, 28>>, test_labels |-> <<NumTest>>]
    /\ Advance(Entry(TRUE))
    /\ UNCHANGED <<do_training, x, net, sim, files, predicted>>

Flatten ==
    /\ AtOp("flatten")
    /\ shape' = [shape EXCEPT ![Cur.which] = ReshapeRows(@)]
    /\ Advance(Entry(TRUE))
    /\ UNCHANGED <<do_training, x, net, sim, files, predicted>>

PlotSample ==
    /\ AtOp("plot_sample")
    /\ Cur.i < shape.train_images[1]
    /\ Advance(Entry(TRUE))
    /\ UNCHANGED <<do_training, shape, x, net, sim, files, predicted>>

DeclareNode ==
    /\ AtOp("node")
    /\ x' = <<Cur.size>>
    /\ net' = Append(net, [kind |-> "node", pre |-> <<>>, shape_in |-> <<>>,
                           out |-> <<Cur.size>>])
    /\ Advance(Entry(TRUE))
    /\ UNCHANGED <<do_training, shape, sim, files, predicted>>

DeclareConv ==
    /\ AtOp("conv")
    /\ x' = ConvOutput(Cur)
    /\ net' = Append(net, [kind |-> "conv", pre |-> x, shape_in |-> Cur.shape_in,
                           out |-> ConvOutput(Cur)])
    /\ Advance(Entry(TRUE))
    /\ UNCHANGED <<do_training, shape, sim, files, predicted>>

DeclareNeurons ==
    /\ AtOp("neurons")
    /\ net' = Append(net, [kind |-> "neurons", pre |-> x, shape_in |-> <<>>, out |-> x])
    /\ Advance(Entry(TRUE))
    /\ UNCHANGED <<do_training, shape, x, sim, files, predicted>>

DeclareDense ==
    /\ AtOp("dense")
    /\ x' = <<Cur.units>>
    /\ net' = Append(net, [kind |-> "dense", pre |-> x, shape_in |-> <<>>,
                           out |-> <<Cur.units>>])
    /\ Advance(Entry(TRUE))
    /\ UNCHANGED <<do_training, shape, sim, files, predicted>>

DeclareProbe ==
    /\ AtOp("probe")
    /\ net' = Append(net, [kind |-> Cur.label, pre |-> x, shape_in |-> <<>>, out |-> x])
    /\ Advance(Entry(TRUE))
    /\ UNCHANGED <<do_training, shape, x, sim, files, predicted>>

Construct ==
    /\ AtOp("construct")
    /\ sim' = [state |-> "open", compiled |-> NoLoss, params |-> "initial",
               minibatch_size |-> Cur.minibatch_size]
    /\ Advance(Entry(TRUE))
    /\ UNCHANGED <<do_training, shape, x, net, files, predicted>>

AddTime ==
    /\ AtOp("add_time")
    /\ shape' = [shape EXCEPT ![Cur.which] = AddAxes(@)]
    /\ Advance(Entry(TRUE))
    /\ UNCHANGED <<do_training, x, net, sim, files, predicted>>

Tile ==
    /\ AtOp("tile")
    /\ shape' = [shape EXCEPT ![Cur.which] = TileShape(AddAxes(@))]
    /\ Advance(Entry(TRUE))
    /\ UNCHANGED <<do_training, x, net, sim, files, predicted>>

Compile ==
    /\ AtOp("compile")
    /\ SimOpen
    /\ sim' = [sim EXCEPT !.compiled = [probe |-> Cur.probe, loss |-> Cur.loss]]
    /\ Advance(Entry(TRUE))
    /\ UNCHANGED <<do_training, shape, x, net, files, predicted>>

Evaluate ==
    /\ AtOp("evaluate")
    /\ SimOpen
    /\ Advance(Entry(TRUE))
    /\ UNCHANGED <<do_training, shape, x, net, sim, files, predicted>>

Fit ==
    /\ AtOp("fit")
    /\ SimOpen
    /\ sim' = [sim EXCEPT !.params = "trained"]
    /\ Advance(Entry(TRUE))
    /\ UNCHANGED <<do_training, shape, x, net, files, predicted>>

SaveParams ==
    /\ AtOp("save_params")
    /\ SimOpen
    /\ files' = [files EXCEPT ![ParamsFile(Cur.path)] = sim.params]
    /\ Advance(Entry(TRUE))
    /\ UNCHANGED <<do_training, shape, x, net, sim, predicted>>

Download ==
    /\ AtOp("download")
    /\ files' = [files EXCEPT ![Cur.dest] = "pretrained"]
    /\ Advance(Entry(TRUE))
    /\ UNCHANGED <<do_training, shape, x, net, sim, predicted>>

LoadParams ==
    /\ AtOp("load_params")
    /\ SimOpen
    /\ files[ParamsFile(Cur.path)] # "absent"
    /\ sim' = [sim EXCEPT !.params = files[ParamsFile(Cur.path)]]
    /\ Advance(Entry(TRUE))
    /\ UNCHANGED <<do_training, shape, x, net, files, predicted>>

Predict ==
    /\ AtOp("predict")
    /\ SimOpen
    /\ predicted' = Take(shape.test_images, Cur.limit)[1]
    /\ Advance(Entry(TRUE))
    /\ UNCHANGED <<do_training, shape, x, net, sim, files>>

PlotPrediction ==
    /\ AtOp("plot_prediction")
    /\ Cur.i < shape.test_images[1]
    /\ Cur.i < predicted
    /\ Advance(Entry(TRUE))
    /\ UNCHANGED <<do_training, shape, x, net, sim, files, predicted>>

Close ==
    /\ AtOp("close")
    /\ SimOpen
    /\ sim' = [sim EXCEPT !.state = "closed"]
    /\ Advance(Entry(TRUE))
    /\ UNCHANGED <<do_training, shape, x, net, files, predicted>>

\* an external call raises
Raise ==
    /\ status = "running"
    /\ pc <= Len(Program)
    /\ Cur.op \in Fallible
    /\ log' = Append(log, Entry(FALSE))
    /\ pc' = OnRaise.pc
    /\ status' = OnRaise.status
    /\ UNCHANGED <<do_training, shape, x, net, sim, files, predicted>>
    /\ UNCHANGED <<dataVars, accVars>>

DataIdle == dpc = 0 /\ raw = <<>> /\ arr = <<>>

AccIdle ==
    /\ apc = "idle"
    /\ y_true = <<>> /\ y_pred = <<>> /\ y_true2 = <<>> /\ y_pred2 = <<>>
    /\ acc = <<>> /\ acc2 = <<>>

RunInit ==
    /\ pc = 1
    /\ status = "running"
    /\ do_training \in BOOLEAN
    /\ shape = NoShape
    /\ x = <<>>
    /\ net = <<>>
    /\ sim = NoSim
    /\ files \in [FileNames -> {"absent", "stale"}]
    /\ predicted = 0
    /\ log = <<>>

Init == RunInit /\ DataIdle /\ AccIdle

Next ==
    \/ LoadData \/ Flatten \/ PlotSample
    \/ DeclareNode \/ DeclareConv \/ DeclareNeurons \/ DeclareDense \/ DeclareProbe
    \/ Construct \/ AddTime \/ Tile
    \/ Compile \/ Evaluate \/ Fit \/ SaveParams \/ Download \/ LoadParams
    \/ Predict \/ PlotPrediction \/ Close
    \/ Raise

Spec == Init /\ [][Next]_vars

\* --------------------------------------------------- properties of the run

Idx == 1..Len(log)

Count(o) == Cardinality({k \in Idx : log[k].op = o})

Last == log[Len(log)]

DeclareOps == {"node", "conv", "neurons", "dense", "probe"}

TrainOrLoadOps == {"fit", "save_params", "download", "load_params"}

\* the letter of a step in the spec's list (a) fetch .. (f) plot, 0 for the
\* statements the list does not name
Letter(e) ==
    CASE e.op = "load_data" -> 1
      [] e.op \in DeclareOps -> 2
      [] e.op = "construct" -> 3
      [] e.op \in TrainOrLoadOps -> 4
      [] e.op = "evaluate" -> 5
      [] e.op \in {"predict", "plot_prediction"} -> 6
      [] OTHER -> 0

\* the same list with the evaluation of the untrained network in its place,
\* between (c) and (d)
Position(e) ==
    CASE e.op = "load_data" -> 1
      [] e.op \in DeclareOps -> 2
      [] e.op = "construct" -> 3
      [] e.op = "evaluate" /\ e.params = "initial" -> 4
      [] e.op \in TrainOrLoadOps -> 5
      [] e.op = "evaluate" -> 6
      [] e.op \in {"predict", "plot_prediction"} -> 7
      [] OTHER -> 0

\* C1 as stated: the steps run in the order (a) fetch, (b) declare, (c)
\* construct, (d) train or load, (e) evaluate, (f) plot; no step of a later
\* letter runs before a step of an earlier letter, so no evaluation runs before
\* the weights have been trained or loaded.
C1_LetterOrder ==
    \A j \in Idx : \A k \in Idx :
        (j < k /\ Letter(log[j]) > 0 /\ Letter(log[k]) > 0)
            => Letter(log[j]) <= Letter(log[k])

\* C1 amended: the steps run in the order fetch, declare, construct, evaluate
\* the untrained network, train or load, evaluate again, plot the predictions;
\* no step of a later position runs before a step of an earlier one, every
\* statement runs in the order of the file, and a run that completes has
\* evaluated once before and once after the weights were trained or loaded.
C1_LinearOrder ==
    /\ \A j \in Idx : \A k \in Idx :
        (j < k /\ Position(log[j]) > 0 /\ Position(log[k]) > 0)
            => Position(log[j]) <= Position(log[k])
    /\ \A k \in Idx : log[k].op = Program[k].op
    /\ status = "done" =>
        /\ \E k \in Idx : log[k].op = "evaluate" /\ log[k].params = "initial"
        /\ \E k \in Idx : log[k].op = "evaluate" /\ log[k].params \in {"trained", "pretrained"}
        /\ Count("evaluate") = 2

C1_Witness ==
    /\ status = "done"
    /\ Count("evaluate") = 2
    /\ Count("plot_prediction") = 5
    /\ \E j \in Idx : \E k \in Idx :
        j < k /\ log[j].op = "evaluate" /\ log[k].op \in TrainOrLoadOps

\* the two evaluations and what sets the parameters between them; the branch
\* taken is the one do_training names
C3_Branches ==
    /\ Count("save_params") + Count("load_params") <= 1
    /\ do_training =>
        /\ Count("download") = 0 /\ Count("load_params") = 0
        /\ \A k \in Idx : log[k].op = "save_params" =>
            /\ k > 2
            /\ log[k - 2].op = "compile" /\ log[k - 2].ok
            /\ log[k - 1].op = "fit" /\ log[k - 1].ok
            /\ log[k].params = "trained"
            /\ log[k].ok => files["mnist_params.npz"] = "trained"
    /\ ~do_training =>
        /\ Count("fit") = 0 /\ Count("save_params") = 0
        /\ \A k \in Idx : log[k].op = "load_params" =>
            /\ k > 1
            /\ log[k - 1].op = "download" /\ log[k - 1].ok
            /\ files["mnist_params.npz"] = "pretrained"
            /\ log[k].ok => sim.params = "pretrained"
    /\ \A j \in Idx : \A k \in Idx :
        (j < k /\ log[j].op = "evaluate" /\ log[k].op = "evaluate") =>
            Cardinality({m \in Idx : j < m /\ m < k /\ log[m].ok
                                     /\ log[m].op \in {"fit", "load_params"}}) = 1

RunEnded == status \in {"done", "failed"}

C4_FailurePropagates ==
    /\ \A k \in Idx : log[k].op = Program[k].op
    /\ \A k \in Idx : ~log[k].ok => (k = Len(log) /\ status = "failed" /\ pc = k)
    /\ status = "failed" => (Len(log) > 0 /\ ~Last.ok /\ Last.op \in Fallible)
    /\ status = "failed" => ~ENABLED Next

C4_Witness ==
    /\ status = "failed"
    /\ Last.op = "download"
    /\ Count("load_params") = 0
    /\ Count("evaluate") = 1

AccuracyLoss == [probe |-> "out_p_filt", loss |-> "classification_accuracy"]

TrainingLoss == [probe |-> "out_p", loss |-> "SparseCategoricalCrossentropy"]

\* C5: every evaluate is called with targets on out_p_filt while the loss
\* compiled last is classification_accuracy on out_p_filt, and every fit with
\* targets on out_p while the loss compiled last is the cross-entropy on out_p.
C5_TargetsMatchCompile ==
    \A k \in Idx :
        /\ log[k].op = "evaluate" =>
            (log[k].probe = "out_p_filt" /\ log[k].compiled = AccuracyLoss)
        /\ log[k].op = "fit" =>
            (log[k].probe = "out_p" /\ log[k].compiled = TrainingLoss)
        /\ log[k].op \in {"evaluate", "fit"} => log[k].probe = log[k].compiled.probe

C5_Witness ==
    /\ do_training
    /\ Count("fit") = 1
    /\ Count("evaluate") = 2
    /\ Last.op = "evaluate" /\ Last.ok

\* C8: the simulator is constructed at most once; every call on it finds it
\* constructed and not closed; a run that completes has closed it exactly
\* once, as its last statement; a run that failed after the construction has
\* not closed it.
C8_Lifecycle ==
    /\ Count("construct") <= 1
    /\ \A k \in Idx : log[k].op \in SimCalls =>
        /\ log[k].sim = "open"
        /\ \E j \in 1..(k - 1) : log[j].op = "construct" /\ log[j].ok
        /\ \A j \in 1..(k - 1) : log[j].op # "close"
    /\ status = "done" =>
        (Count("close") = 1 /\ Last.op = "close" /\ sim.state = "closed")
    /\ (status = "failed" /\ sim.state # "none") =>
        (Count("close") = 0 /\ sim.state = "open")

C8_Witness ==
    /\ status = "failed"
    /\ Last.op = "predict"
    /\ sim.state = "open"

Convs == SelectSeq(net, LAMBDA l : l.kind = "conv")

\* C9: the input node has 784 elements, the element count of the first
\* shape_in; each later convolution's shape_in is the output shape of the
\* convolution before it, (26, 26, 32) and (12, 12, 64); the readout has 10
\* units.
C9_ShapeChain ==
    /\ net # <<>> => (net[1].kind = "node" /\ net[1].out = <<28 * 28>>)
    /\ \A k \in 1..Len(net) : net[k].kind = "dense" => net[k].out = <<10>>
    /\ Len(Convs) >= 1 =>
        /\ Convs[1].shape_in = <<28, 28, 1>>
        /\ Prod(Convs[1].shape_in) = Prod(Convs[1].pre)
        /\ Prod(Convs[1].pre) = 784
        /\ Convs[1].out = <<((28 - 3) \div 1) + 1, ((28 - 3) \div 1) + 1, 32>>
        /\ Convs[1].out = <<26, 26, 32>>
    /\ Len(Convs) >= 2 =>
        /\ Convs[2].shape_in = <<26, 26, 32>>
        /\ Convs[2].out = <<((26 - 3) \div 2) + 1, ((26 - 3) \div 2) + 1, 64>>
        /\ Convs[2].out = <<12, 12, 64>>
    /\ Len(Convs) >= 3 => Convs[3].shape_in = <<12, 12, 64>>
    /\ \A k \in 2..Len(Convs) :
        /\ Convs[k].shape_in = Convs[k - 1].out
        /\ Convs[k].shape_in = Convs[k].pre

C9_Witness ==
    /\ Len(Convs) = 3
    /\ \E k \in 1..Len(net) : net[k].kind = "dense"
    /\ x = <<10>>

\* C10: fit is fed 60000 examples, each evaluate 10000 and predict 200, each a
\* positive multiple of minibatch_size; every index plotted is in 0..4 and
\* below the number of predicted examples.
C10_WholeMinibatches ==
    \A k \in Idx :
        /\ log[k].op \in {"fit", "evaluate", "predict"} =>
            /\ log[k].n > 0
            /\ log[k].n % minibatch_size = 0
            /\ sim.minibatch_size = 200
            /\ log[k].n % sim.minibatch_size = 0
        /\ log[k].op = "fit" => log[k].n = 60000
        /\ log[k].op = "evaluate" => log[k].n = 10000
        /\ log[k].op = "predict" => log[k].n = 200
        /\ log[k].op = "plot_prediction" =>
            (log[k].i \in 0..4 /\ log[k].i < log[k].n /\ log[k].n = predicted)

C10_Witness ==
    /\ do_training
    /\ status = "done"
    /\ Count("fit") = 1
    /\ Count("plot_prediction") = 5
    /\ predicted = 200

\* ------------------------------------------------- the data, by its contents

\* bounds of the datasets SpecData draws
MaxTrain == 1

MaxTest == 2

ImgRows == 1..2

ImgCols == 1..2

Labels == {0, 1}

Rows(img) == Len(img)

Cols(img) == Len(img[1])

\* one example's part of x.reshape((x.shape[0], -1)): the rows one after another
FlattenImage(img) ==
    [k \in 1..(Rows(img) * Cols(img)) |->
        img[((k - 1) \div Cols(img)) + 1][((k - 1) % Cols(img)) + 1]]

\* x.reshape((x.shape[0], -1)), lines 67-68
ReshapeRowsOf(a) == [i \in 1..Len(a) |-> FlattenImage(a[i])]

\* x[:, None, :] on a matrix and x[:, None, None] on a vector, lines 202-203
AddAxesOf(which, a) ==
    IF which \in {"train_images", "test_images"}
    THEN [i \in 1..Len(a) |-> <<a[i]>>]
    ELSE [i \in 1..Len(a) |-> << <<a[i]>> >>]

\* variant: the repetitions on the axis of the examples
TileReps_examples == <<n_steps, 1, 1>>

\* the repetitions given to np.tile, lines 209-210
TileReps == <<1, n_steps, 1>>

\* np.tile(a, reps) of a three-dimensional array
TileOf(a, reps) ==
    [i \in 1..(Len(a) * reps[1]) |->
        LET ai == a[((i - 1) % Len(a)) + 1] IN
        [t \in 1..(Len(ai) * reps[2]) |->
            LET at == ai[((t - 1) % Len(ai)) + 1] IN
            [d \in 1..(Len(at) * reps[3]) |-> at[((d - 1) % Len(at)) + 1]]]]

\* the statements of the run that change the arrays
DataProgram ==
    SelectSeq(CellLoad \o CellTime,
              LAMBDA st : st.op \in {"flatten", "add_time", "tile"})

DCur == DataProgram[dpc]

DataAt(o) == dpc >= 1 /\ dpc <= Len(DataProgram) /\ DCur.op = o

RunIdle ==
    /\ pc = 0 /\ status = "idle" /\ do_training = FALSE /\ shape = NoShape
    /\ x = <<>> /\ net = <<>> /\ sim = NoSim
    /\ files = [f \in FileNames |-> "absent"] /\ predicted = 0 /\ log = <<>>

DataStep(a) ==
    /\ arr' = [arr EXCEPT ![DCur.which] = a]
    /\ dpc' = dpc + 1
    /\ UNCHANGED <<raw, runVars, accVars>>

DataFlatten == DataAt("flatten") /\ DataStep(ReshapeRowsOf(arr[DCur.which]))

DataAddTime == DataAt("add_time") /\ DataStep(AddAxesOf(DCur.which, arr[DCur.which]))

DataTile ==
    /\ DataAt("tile")
    /\ DataStep(TileOf(AddAxesOf(DCur.which, arr[DCur.which]), TileReps))

\* the images with one pixel lit
Images ==
    {[r \in ImgRows |-> [c \in ImgCols |-> IF <<r, c>> = p THEN 1 ELSE 0]] :
        p \in ImgRows \X ImgCols}

DataSets(max) ==
    UNION {[1..n -> Images] \X [1..n -> Labels] : n \in 1..max}

DataInit ==
    /\ dpc = 1
    /\ \E tr \in DataSets(MaxTrain) : \E te \in DataSets(MaxTest) :
        raw = [train_images |-> tr[1], train_labels |-> tr[2],
               test_images |-> te[1], test_labels |-> te[2]]
    /\ arr = raw

InitData == DataInit /\ RunIdle /\ AccIdle

NextData == DataFlatten \/ DataAddTime \/ DataTile

SpecData == InitData /\ [][NextData]_vars

Prepared == dpc > Len(DataProgram)

FlatIndex(img, r, c) == (r - 1) * Cols(img) + c

\* C7: after the preparation every training example has 1 timestep and every
\* test example n_steps = 30; at every timestep the image is the original
\* image, flattened, and the label the original label; the number and the
\* order of the examples are those of the dataset.
C7_TimeAdded ==
    Prepared =>
        /\ Len(arr.train_images) = Len(raw.train_images)
        /\ Len(arr.train_labels) = Len(raw.train_labels)
        /\ Len(arr.test_images) = Len(raw.test_images)
        /\ Len(arr.test_labels) = Len(raw.test_labels)
        /\ \A i \in 1..Len(raw.train_images) :
            /\ Len(arr.train_images[i]) = 1
            /\ Len(arr.train_labels[i]) = 1
            /\ arr.train_labels[i][1] = <<raw.train_labels[i]>>
            /\ Len(arr.train_images[i][1]) = Cardinality(ImgRows \X ImgCols)
            /\ \A r \in ImgRows : \A c \in ImgCols :
                arr.train_images[i][1][FlatIndex(raw.train_images[i], r, c)]
                    = raw.train_images[i][r][c]
        /\ \A i \in 1..Len(raw.test_images) :
            /\ Len(arr.test_images[i]) = 30
            /\ Len(arr.test_labels[i]) = 30
            /\ \A t \in 1..n_steps :
                /\ arr.test_labels[i][t] = <<raw.test_labels[i]>>
                /\ Len(arr.test_images[i][t]) = Cardinality(ImgRows \X ImgCols)
                /\ \A r \in ImgRows : \A c \in ImgCols :
                    arr.test_images[i][t][FlatIndex(raw.test_images[i], r, c)]
                        = raw.test_images[i][r][c]

C7_Witness ==
    /\ Prepared
    /\ Len(raw.test_images) = 2
    /\ raw.test_images[1] # raw.test_images[2]
    /\ raw.test_labels[1] # raw.test_labels[2]
    /\ Len(arr.test_images[2]) = n_steps

\* -------------------------------------------------- classification_accuracy

\* bound of the number of timesteps SpecAccuracy draws
MaxSteps == 2

BatchIdx == 1..2

Classes == {0, 1}

Outputs == {0, 1}

\* tf.argmax over the last axis: the first index of the largest value, from 0
ArgMax(v) ==
    (CHOOSE c \in 1..Len(v) :
        /\ \A d \in 1..Len(v) : v[d] <= v[c]
        /\ \A d \in 1..(c - 1) : v[d] < v[c]) - 1

\* tf.metrics.sparse_categorical_accuracy on labels [example][1] and outputs
\* [example][class]: 1 where the label is the index of the largest output
sparse_categorical_accuracy(yt, yp) ==
    [i \in 1..Len(yp) |-> IF yt[i][1] = ArgMax(yp[i]) THEN 1 ELSE 0]

\* variant: a[:, 0]
LastStep_first(a) == [i \in 1..Len(a) |-> a[i][1]]

\* a[:, -1], line 230
LastStep(a) == [i \in 1..Len(a) |-> a[i][Len(a[i])]]

\* lines 229-230
classification_accuracy(yt, yp) ==
    sparse_categorical_accuracy(LastStep(yt), LastStep(yp))

FlipLabel(l) == <<1 - l[1]>>

FlipOutputs(v) == [c \in 1..Len(v) |-> 1 - v[c]]

\* the labels with every timestep but the last changed
ChangeEarlierLabels(a) ==
    [i \in 1..Len(a) |->
        [t \in 1..Len(a[i]) |-> IF t = Len(a[i]) THEN a[i][t] ELSE FlipLabel(a[i][t])]]

\* the outputs with every timestep but the last changed
ChangeEarlierOutputs(a) ==
    [i \in 1..Len(a) |->
        [t \in 1..Len(a[i]) |-> IF t = Len(a[i]) THEN a[i][t] ELSE FlipOutputs(a[i][t])]]

AccInit ==
    /\ apc = "ready"
    /\ \E T \in 1..MaxSteps :
        /\ y_true \in [BatchIdx -> [1..T -> {<<l>> : l \in Classes}]]
        /\ y_pred \in [BatchIdx -> [1..T -> [1..Cardinality(Classes) -> Outputs]]]
    /\ y_true2 = ChangeEarlierLabels(y_true)
    /\ y_pred2 = ChangeEarlierOutputs(y_pred)
    /\ acc = <<>>
    /\ acc2 = <<>>

\* the metric applied to both inputs
ApplyMetric ==
    /\ apc = "ready"
    /\ acc' = classification_accuracy(y_true, y_pred)
    /\ acc2' = classification_accuracy(y_true2, y_pred2)
    /\ apc' = "evaluated"
    /\ UNCHANGED <<y_true, y_pred, y_true2, y_pred2, runVars, dataVars>>

InitAccuracy == AccInit /\ RunIdle /\ DataIdle

NextAccuracy == ApplyMetric

SpecAccuracy == InitAccuracy /\ [][NextAccuracy]_vars

Final(a, i) == a[i][Len(a[i])]

\* C6: per example the result is 1 when the index of the largest output of the
\* final timestep (the first such index) is the label of the final timestep
\* and 0 otherwise, whatever the earlier timesteps hold: two inputs that agree
\* on the final timestep get the same result.
C6_FinalTimestepOnly ==
    apc = "evaluated" =>
        /\ Len(acc) = Len(y_pred)
        /\ \A i \in 1..Len(y_pred) :
            LET out == Final(y_pred, i)
                lab == Final(y_true, i)[1]
            IN  /\ acc[i] \in {0, 1}
                /\ acc[i] = 1 <=>
                    /\ \A c \in 1..Len(out) : out[c] <= out[lab + 1]
                    /\ \A c \in 1..lab : out[c] < out[lab + 1]
        /\ (\A i \in 1..Len(y_pred) :
                /\ Final(y_pred2, i) = Final(y_pred, i)
                /\ Final(y_true2, i) = Final(y_true, i))
            => acc2 = acc

C6_Witness ==
    /\ apc = "evaluated"
    /\ Len(y_pred[1]) = MaxSteps
    /\ y_pred2 # y_pred
    /\ y_true2 # y_true
    /\ \A i \in BatchIdx :
        /\ Final(y_pred2, i) = Final(y_pred, i)
        /\ Final(y_true2, i) = Final(y_true, i)
    /\ ArgMax(y_pred[1][1]) # ArgMax(Final(y_pred, 1))
    /\ acc = <<1, 0>>
    /\ acc2 = acc

====
